---- MODULE Spec2Model ----
(***************************************************************************)
(* Model of the certificate store of librvth (src/librvth/cert_store.c):   *)
(* the issuer-name list, the certificate records, and the four access      *)
(* functions cert_get_issuer_from_name, cert_get, cert_get_from_name and   *)
(* cert_get_size.                                                          *)
(*                                                                         *)
(* A C string is a sequence of one-character strings; the terminating NUL  *)
(* is implicit (CharAt past the end reads NUL).  A fixed-width char array  *)
(* is a sequence of exactly that width, NUL-padded.  A pointer to a static *)
(* object is the object's name; the null pointer is NULL.                  *)
(***************************************************************************)
EXTENDS Integers, Sequences, FiniteSets, TLC

(***************************************************************************)
(* Bounds of the model.                                                    *)
(***************************************************************************)
\* How far beyond RVL_CERT_ISSUER_MAX the index arguments of cert_get and
\* cert_get_size range.
IndexMargin == 2
\* How many characters are appended to a stored name to form an input that
\* properly extends it.
MaxExtend == 1
\* How many trailing characters are dropped from a stored name to form an
\* input that is a proper prefix of it.
MaxTrim == 2

\* The most steps a walk along a trust chain is followed for.
MaxWalk == 3

\* The number of reader threads of a multi-threaded process.
NumThreads == 2

(***************************************************************************)
(* errno values (<errno.h>).                                               *)
(***************************************************************************)
ENoError == 0
EINVAL == 22
ERANGE == 34

(***************************************************************************)
(* Characters and C strings.                                               *)
(***************************************************************************)
NUL == "NUL"

\* Character codes (ASCII) of the characters that occur in the model.
Ord(c) ==
  CASE c = NUL -> 0
    [] c = "-" -> 45
    [] c = "0" -> 48 [] c = "1" -> 49 [] c = "2" -> 50 [] c = "3" -> 51
    [] c = "4" -> 52 [] c = "5" -> 53 [] c = "6" -> 54 [] c = "7" -> 55
    [] c = "8" -> 56 [] c = "9" -> 57
    [] c = "A" -> 65 [] c = "C" -> 67 [] c = "M" -> 77 [] c = "P" -> 80
    [] c = "R" -> 82 [] c = "S" -> 83 [] c = "X" -> 88
    [] c = "a" -> 97 [] c = "e" -> 101 [] c = "o" -> 111 [] c = "r" -> 114
    [] c = "t" -> 116 [] c = "x" -> 120

\* s[k] of a NUL-terminated string (1-based); the terminator follows the text.
CharAt(s, k) == IF k <= Len(s) THEN s[k] ELSE NUL

\* A comparison that stops at the end of b (strncmp over strlen(b)): a
\* string that extends b compares equal to it.
strcmp_prefix(a, b) ==
  LET diff == { k \in 1..Len(b) : CharAt(a, k) # CharAt(b, k) }
  IN  IF diff = {} THEN 0
      ELSE LET k == CHOOSE k \in diff : \A j \in diff : k <= j
           IN  Ord(CharAt(a, k)) - Ord(CharAt(b, k))

\* strcmp(3): the strings are compared character by character up to and
\* including the terminator of the shorter one; 0 when no position differs,
\* otherwise the difference of the characters at the first position that does.
strcmp(a, b) ==
  LET n == (IF Len(a) < Len(b) THEN Len(a) ELSE Len(b)) + 1
      diff == { k \in 1..n : CharAt(a, k) # CharAt(b, k) }
  IN  IF diff = {} THEN 0
      ELSE LET k == CHOOSE k \in diff : \A j \in diff : k <= j
           IN  Ord(CharAt(a, k)) - Ord(CharAt(b, k))

\* The null pointer of type const char*: a one-element sequence whose element
\* is not a character, so it equals no C string and strcmp on it is undefined.
NULLSTR == <<"NULL">>

\* The null pointer of type const RVL_Cert*.
NULL == "NULL"

\* A char array of the given width initialised from a string literal: the
\* text, then NUL up to the width.
CharArray(s, width) == [k \in 1..width |-> CharAt(s, k)]

RECURSIVE CStrFrom(_, _)
CStrFrom(buf, k) ==
  IF k > Len(buf) \/ buf[k] = NUL THEN <<>>
  ELSE <<buf[k]>> \o CStrFrom(buf, k + 1)

\* The C string held in a char array: the characters before the first NUL.
CStr(buf) == CStrFrom(buf, 1)

(***************************************************************************)
(* RVL_Cert_Issuer enumeration.                                            *)
(***************************************************************************)
RVL_CERT_ISSUER_UNKNOWN == 0
RVL_CERT_ISSUER_ROOT == 1
RVL_CERT_ISSUER_RETAIL_CA == 2
RVL_CERT_ISSUER_RETAIL_TICKET == 3
RVL_CERT_ISSUER_RETAIL_TMD == 4
RVL_CERT_ISSUER_DEBUG_CA == 5
RVL_CERT_ISSUER_DEBUG_TICKET == 6
RVL_CERT_ISSUER_DEBUG_TMD == 7
RVL_CERT_ISSUER_DEBUG_DEV == 8
RVL_CERT_ISSUER_MAX == 9

\* The two groups of the enumeration ("Retail", "Debug").
RetailIssuers == RVL_CERT_ISSUER_RETAIL_CA..RVL_CERT_ISSUER_RETAIL_TMD
DebugIssuers == RVL_CERT_ISSUER_DEBUG_CA..RVL_CERT_ISSUER_DEBUG_DEV

\* The indices that name a certificate.
ValidIssuers == (RVL_CERT_ISSUER_UNKNOWN + 1)..(RVL_CERT_ISSUER_MAX - 1)

(***************************************************************************)
(* Certificate layout (wii_structs.h): tags, field widths, struct sizes.   *)
(***************************************************************************)
RVL_CERT_SIGTYPE_RSA4096 == 65536
RVL_CERT_SIGTYPE_RSA2048 == 65537
RVL_CERT_KEYTYPE_RSA4096 == 0
RVL_CERT_KEYTYPE_RSA2048 == 1
RVL_CERT_KEYTYPE_ECC == 2

\* A 32-bit value as its four stored bytes, most significant first.
BE32_CONST(x) ==
  << (x \div 16777216) % 256, (x \div 65536) % 256, (x \div 256) % 256, x % 256 >>

\* A 32-bit zero initialiser (all four bytes zero in either byte order).
U32(x) == << 0, 0, 0, 0 >>

\* Width of the issuer and child-identity char arrays.
IdentityWidth == 64
\* Width of the 32-bit tag and reserved fields.
TagWidth == 4
\* Zero padding that closes every signature block.
SigPadding == 60
\* Lengths of the signature bytes.
SigLenRSA4096 == 512
SigLenRSA2048 == 256
\* Lengths of the public key material.
ModulusRSA4096 == 512
ModulusRSA2048 == 256
PointECC == 60
\* Width of the RSA public exponent.
ExponentWidth == 4
\* Padding that closes a public key block.
PubPaddingRSA == 52
PubPaddingECC == 60

\* Byte size of a signature block, by its kind ("Dummy" is the unsigned one).
SigBlockSize(kind) ==
  TagWidth
  + (CASE kind = "RSA4096" -> SigLenRSA4096
       [] kind = "RSA2048" -> SigLenRSA2048
       [] kind = "Dummy" -> 0)
  + SigPadding + IdentityWidth

\* Byte size of a public key block, by its kind.
PubKeyBlockSize(kind) ==
  TagWidth + IdentityWidth + TagWidth
  + (CASE kind = "RSA4096" -> ModulusRSA4096 + ExponentWidth + PubPaddingRSA
       [] kind = "RSA2048" -> ModulusRSA2048 + ExponentWidth + PubPaddingRSA
       [] kind = "ECC" -> PointECC + PubPaddingECC)

\* sizeof of each certificate struct type: signature block, then public key
\* block, packed.
SizeOfType(ctype) ==
  CASE ctype = "RVL_Cert_RSA4096_KeyOnly" -> SigBlockSize("Dummy") + PubKeyBlockSize("RSA4096")
    [] ctype = "RVL_Cert_RSA4096_RSA2048" -> SigBlockSize("RSA4096") + PubKeyBlockSize("RSA2048")
    [] ctype = "RVL_Cert_RSA2048" -> SigBlockSize("RSA2048") + PubKeyBlockSize("RSA2048")
    [] ctype = "RVL_Cert_RSA2048_ECC" -> SigBlockSize("RSA2048") + PubKeyBlockSize("ECC")

(***************************************************************************)
(* Static data of cert_store.c.                                            *)
(***************************************************************************)
\* Signature issuers.
RVL_Cert_Issuers ==
  (RVL_CERT_ISSUER_UNKNOWN :> NULLSTR)
  \* "Root"
  @@ (RVL_CERT_ISSUER_ROOT :>
      <<"R","o","o","t">>)
  \* "Root-CA00000001"
  @@ (RVL_CERT_ISSUER_RETAIL_CA :>
      <<"R","o","o","t","-","C","A","0","0","0","0","0","0","0","1">>)
  \* "Root-CA00000001-XS00000003"
  @@ (RVL_CERT_ISSUER_RETAIL_TICKET :>
      <<"R","o","o","t","-","C","A","0","0","0","0","0","0","0","1","-","X","S","0","0","0","0","0","0","0","3">>)
  \* "Root-CA00000001-CP00000004"
  @@ (RVL_CERT_ISSUER_RETAIL_TMD :>
      <<"R","o","o","t","-","C","A","0","0","0","0","0","0","0","1","-","C","P","0","0","0","0","0","0","0","4">>)
  \* "Root-CA00000002"
  @@ (RVL_CERT_ISSUER_DEBUG_CA :>
      <<"R","o","o","t","-","C","A","0","0","0","0","0","0","0","2">>)
  \* "Root-CA00000002-XS00000006"
  @@ (RVL_CERT_ISSUER_DEBUG_TICKET :>
      <<"R","o","o","t","-","C","A","0","0","0","0","0","0","0","2","-","X","S","0","0","0","0","0","0","0","6">>)
  \* "Root-CA00000002-CP00000007"
  @@ (RVL_CERT_ISSUER_DEBUG_TMD :>
      <<"R","o","o","t","-","C","A","0","0","0","0","0","0","0","2","-","C","P","0","0","0","0","0","0","0","7">>)
  \* "Root-CA00000002-MS00000003"
  @@ (RVL_CERT_ISSUER_DEBUG_DEV :>
      <<"R","o","o","t","-","C","A","0","0","0","0","0","0","0","2","-","M","S","0","0","0","0","0","0","0","3">>)

\* cert_root signed by itself: its issuer field names the root.
cert_root_self_signed ==
  [ ctype |-> "RVL_Cert_RSA4096_KeyOnly",
    sig |-> [ type |-> U32(0),
              issuer |-> CharArray(<<"R","o","o","t">>, IdentityWidth) ],
    pub |-> [ type |-> BE32_CONST(RVL_CERT_KEYTYPE_RSA4096),
              child_cert_id |-> CharArray(<<"R","o","o","t">>, IdentityWidth) ] ]

\* issuer "", child identity "Root"
cert_root ==
  [ ctype |-> "RVL_Cert_RSA4096_KeyOnly",
    sig |-> [ type |-> U32(0),
              issuer |-> CharArray(<<>>, IdentityWidth) ],
    pub |-> [ type |-> BE32_CONST(RVL_CERT_KEYTYPE_RSA4096),
              child_cert_id |-> CharArray(<<"R","o","o","t">>, IdentityWidth) ] ]

\* issuer "Root", child identity "CA00000001"
cert_retail_ca ==
  [ ctype |-> "RVL_Cert_RSA4096_RSA2048",
    sig |-> [ type |-> BE32_CONST(RVL_CERT_SIGTYPE_RSA4096),
              issuer |-> CharArray(<<"R","o","o","t">>, IdentityWidth) ],
    pub |-> [ type |-> BE32_CONST(RVL_CERT_KEYTYPE_RSA2048),
              child_cert_id |-> CharArray(<<"C","A","0","0","0","0","0","0","0","1">>, IdentityWidth) ] ]

\* cert_retail_ticket naming its signer by leaf name instead of by chain name.
cert_retail_ticket_leaf_issuer ==
  [ ctype |-> "RVL_Cert_RSA2048",
    sig |-> [ type |-> BE32_CONST(RVL_CERT_SIGTYPE_RSA2048),
              issuer |-> CharArray(<<"C","A","0","0","0","0","0","0","0","1">>, IdentityWidth) ],
    pub |-> [ type |-> BE32_CONST(RVL_CERT_KEYTYPE_RSA2048),
              child_cert_id |-> CharArray(<<"X","S","0","0","0","0","0","0","0","3">>, IdentityWidth) ] ]

\* issuer "Root-CA00000001", child identity "XS00000003"
cert_retail_ticket ==
  [ ctype |-> "RVL_Cert_RSA2048",
    sig |-> [ type |-> BE32_CONST(RVL_CERT_SIGTYPE_RSA2048),
              issuer |-> CharArray(<<"R","o","o","t","-","C","A","0","0","0","0","0","0","0","1">>, IdentityWidth) ],
    pub |-> [ type |-> BE32_CONST(RVL_CERT_KEYTYPE_RSA2048),
              child_cert_id |-> CharArray(<<"X","S","0","0","0","0","0","0","0","3">>, IdentityWidth) ] ]

\* issuer "Root-CA00000001", child identity "CP00000004"
cert_retail_tmd ==
  [ ctype |-> "RVL_Cert_RSA2048",
    sig |-> [ type |-> BE32_CONST(RVL_CERT_SIGTYPE_RSA2048),
              issuer |-> CharArray(<<"R","o","o","t","-","C","A","0","0","0","0","0","0","0","1">>, IdentityWidth) ],
    pub |-> [ type |-> BE32_CONST(RVL_CERT_KEYTYPE_RSA2048),
              child_cert_id |-> CharArray(<<"C","P","0","0","0","0","0","0","0","4">>, IdentityWidth) ] ]

\* cert_debug_ca signed by the retail CA instead of by the root.
cert_debug_ca_signed_by_retail ==
  [ ctype |-> "RVL_Cert_RSA4096_RSA2048",
    sig |-> [ type |-> BE32_CONST(RVL_CERT_SIGTYPE_RSA4096),
              issuer |-> CharArray(<<"R","o","o","t","-","C","A","0","0","0","0","0","0","0","1">>, IdentityWidth) ],
    pub |-> [ type |-> BE32_CONST(RVL_CERT_KEYTYPE_RSA2048),
              child_cert_id |-> CharArray(<<"C","A","0","0","0","0","0","0","0","2">>, IdentityWidth) ] ]

\* issuer "Root", child identity "CA00000002"
cert_debug_ca ==
  [ ctype |-> "RVL_Cert_RSA4096_RSA2048",
    sig |-> [ type |-> BE32_CONST(RVL_CERT_SIGTYPE_RSA4096),
              issuer |-> CharArray(<<"R","o","o","t">>, IdentityWidth) ],
    pub |-> [ type |-> BE32_CONST(RVL_CERT_KEYTYPE_RSA2048),
              child_cert_id |-> CharArray(<<"C","A","0","0","0","0","0","0","0","2">>, IdentityWidth) ] ]

\* issuer "Root-CA00000002", child identity "XS00000006"
cert_debug_ticket ==
  [ ctype |-> "RVL_Cert_RSA2048",
    sig |-> [ type |-> BE32_CONST(RVL_CERT_SIGTYPE_RSA2048),
              issuer |-> CharArray(<<"R","o","o","t","-","C","A","0","0","0","0","0","0","0","2">>, IdentityWidth) ],
    pub |-> [ type |-> BE32_CONST(RVL_CERT_KEYTYPE_RSA2048),
              child_cert_id |-> CharArray(<<"X","S","0","0","0","0","0","0","0","6">>, IdentityWidth) ] ]

\* issuer "Root-CA00000002", child identity "CP00000007"
cert_debug_tmd ==
  [ ctype |-> "RVL_Cert_RSA2048",
    sig |-> [ type |-> BE32_CONST(RVL_CERT_SIGTYPE_RSA2048),
              issuer |-> CharArray(<<"R","o","o","t","-","C","A","0","0","0","0","0","0","0","2">>, IdentityWidth) ],
    pub |-> [ type |-> BE32_CONST(RVL_CERT_KEYTYPE_RSA2048),
              child_cert_id |-> CharArray(<<"C","P","0","0","0","0","0","0","0","7">>, IdentityWidth) ] ]

\* cert_debug_dev naming its signer by leaf name instead of by chain name.
cert_debug_dev_leaf_issuer ==
  [ ctype |-> "RVL_Cert_RSA2048_ECC",
    sig |-> [ type |-> BE32_CONST(RVL_CERT_SIGTYPE_RSA2048),
              issuer |-> CharArray(<<"C","A","0","0","0","0","0","0","0","2">>, IdentityWidth) ],
    pub |-> [ type |-> BE32_CONST(RVL_CERT_KEYTYPE_ECC),
              child_cert_id |-> CharArray(<<"M","S","0","0","0","0","0","0","0","3">>, IdentityWidth) ] ]

\* issuer "Root-CA00000002", child identity "MS00000003"
cert_debug_dev ==
  [ ctype |-> "RVL_Cert_RSA2048_ECC",
    sig |-> [ type |-> BE32_CONST(RVL_CERT_SIGTYPE_RSA2048),
              issuer |-> CharArray(<<"R","o","o","t","-","C","A","0","0","0","0","0","0","0","2">>, IdentityWidth) ],
    pub |-> [ type |-> BE32_CONST(RVL_CERT_KEYTYPE_ECC),
              child_cert_id |-> CharArray(<<"M","S","0","0","0","0","0","0","0","3">>, IdentityWidth) ] ]

\* The static certificate objects by name; a non-null RVL_Cert* is a name.
CertObjects == { "cert_root", "cert_retail_ca", "cert_retail_ticket", "cert_retail_tmd",
                 "cert_debug_ca", "cert_debug_ticket", "cert_debug_tmd", "cert_debug_dev" }

\* The object a non-null RVL_Cert* points to.
Deref(p) ==
  CASE p = "cert_root" -> cert_root
    [] p = "cert_retail_ca" -> cert_retail_ca
    [] p = "cert_retail_ticket" -> cert_retail_ticket
    [] p = "cert_retail_tmd" -> cert_retail_tmd
    [] p = "cert_debug_ca" -> cert_debug_ca
    [] p = "cert_debug_ticket" -> cert_debug_ticket
    [] p = "cert_debug_tmd" -> cert_debug_tmd
    [] p = "cert_debug_dev" -> cert_debug_dev

\* sizeof(object): the size of the object's declared type.
sizeof(p) == SizeOfType(Deref(p).ctype)

\* certs with the retail TMD slot pointing at the retail ticket record.
certs_duplicate_entry ==
  (RVL_CERT_ISSUER_UNKNOWN :> NULL)
  @@ (RVL_CERT_ISSUER_ROOT :> "cert_root")
  @@ (RVL_CERT_ISSUER_RETAIL_CA :> "cert_retail_ca")
  @@ (RVL_CERT_ISSUER_RETAIL_TICKET :> "cert_retail_ticket")
  @@ (RVL_CERT_ISSUER_RETAIL_TMD :> "cert_retail_ticket")
  @@ (RVL_CERT_ISSUER_DEBUG_CA :> "cert_debug_ca")
  @@ (RVL_CERT_ISSUER_DEBUG_TICKET :> "cert_debug_ticket")
  @@ (RVL_CERT_ISSUER_DEBUG_TMD :> "cert_debug_tmd")
  @@ (RVL_CERT_ISSUER_DEBUG_DEV :> "cert_debug_dev")

\* The table local to cert_get.
certs ==
  (RVL_CERT_ISSUER_UNKNOWN :> NULL)
  @@ (RVL_CERT_ISSUER_ROOT :> "cert_root")
  @@ (RVL_CERT_ISSUER_RETAIL_CA :> "cert_retail_ca")
  @@ (RVL_CERT_ISSUER_RETAIL_TICKET :> "cert_retail_ticket")
  @@ (RVL_CERT_ISSUER_RETAIL_TMD :> "cert_retail_tmd")
  @@ (RVL_CERT_ISSUER_DEBUG_CA :> "cert_debug_ca")
  @@ (RVL_CERT_ISSUER_DEBUG_TICKET :> "cert_debug_ticket")
  @@ (RVL_CERT_ISSUER_DEBUG_TMD :> "cert_debug_tmd")
  @@ (RVL_CERT_ISSUER_DEBUG_DEV :> "cert_debug_dev")

\* cert_sizes with the retail CA entry taken from the wrong object.
cert_sizes_out_of_step ==
  (RVL_CERT_ISSUER_UNKNOWN :> 0)
  @@ (RVL_CERT_ISSUER_ROOT :> sizeof("cert_root"))
  @@ (RVL_CERT_ISSUER_RETAIL_CA :> sizeof("cert_retail_ticket"))
  @@ (RVL_CERT_ISSUER_RETAIL_TICKET :> sizeof("cert_retail_ticket"))
  @@ (RVL_CERT_ISSUER_RETAIL_TMD :> sizeof("cert_retail_tmd"))
  @@ (RVL_CERT_ISSUER_DEBUG_CA :> sizeof("cert_debug_ca"))
  @@ (RVL_CERT_ISSUER_DEBUG_TICKET :> sizeof("cert_debug_ticket"))
  @@ (RVL_CERT_ISSUER_DEBUG_TMD :> sizeof("cert_debug_tmd"))
  @@ (RVL_CERT_ISSUER_DEBUG_DEV :> sizeof("cert_debug_dev"))

\* The table local to cert_get_size.
cert_sizes ==
  (RVL_CERT_ISSUER_UNKNOWN :> 0)
  @@ (RVL_CERT_ISSUER_ROOT :> sizeof("cert_root"))
  @@ (RVL_CERT_ISSUER_RETAIL_CA :> sizeof("cert_retail_ca"))
  @@ (RVL_CERT_ISSUER_RETAIL_TICKET :> sizeof("cert_retail_ticket"))
  @@ (RVL_CERT_ISSUER_RETAIL_TMD :> sizeof("cert_retail_tmd"))
  @@ (RVL_CERT_ISSUER_DEBUG_CA :> sizeof("cert_debug_ca"))
  @@ (RVL_CERT_ISSUER_DEBUG_TICKET :> sizeof("cert_debug_ticket"))
  @@ (RVL_CERT_ISSUER_DEBUG_TMD :> sizeof("cert_debug_tmd"))
  @@ (RVL_CERT_ISSUER_DEBUG_DEV :> sizeof("cert_debug_dev"))

(***************************************************************************)
(* Certificate access functions.  Each takes the value of errno at entry   *)
(* and yields the returned value with the value of errno at exit.          *)
(***************************************************************************)
RECURSIVE ScanIssuers_stops_early(_, _)
\* The scan with its bound one short: the last entry is never compared.
ScanIssuers_stops_early(s_issuer, i) ==
  IF ~(i < RVL_CERT_ISSUER_MAX - 1) THEN RVL_CERT_ISSUER_MAX
  ELSE IF strcmp(s_issuer, RVL_Cert_Issuers[i]) = 0 THEN i
  ELSE ScanIssuers_stops_early(s_issuer, i + 1)

RECURSIVE ScanIssuers(_, _)
\* The for loop of cert_get_issuer_from_name from index i on: the index of
\* the first entry that strcmp finds equal, or RVL_CERT_ISSUER_MAX.
ScanIssuers(s_issuer, i) ==
  IF ~(i < RVL_CERT_ISSUER_MAX) THEN RVL_CERT_ISSUER_MAX
  ELSE IF strcmp(s_issuer, RVL_Cert_Issuers[i]) = 0 THEN i
  ELSE ScanIssuers(s_issuer, i + 1)

\* The entries the loop applies strcmp to when it starts at index first and
\* ScanIssuers yields found: every index from first up to the match, or up to
\* the last entry when nothing matches.
ScanCompared(first, found) ==
  first..(IF found < RVL_CERT_ISSUER_MAX THEN found ELSE RVL_CERT_ISSUER_MAX - 1)

\* cert_get_issuer_from_name without the empty-string arm: "" is scanned for.
cert_get_issuer_from_name_no_empty_arm(s_issuer, e) ==
  IF s_issuer = NULLSTR
    THEN [ret |-> RVL_CERT_ISSUER_UNKNOWN, errno |-> EINVAL, compared |-> {}]
  ELSE LET i == ScanIssuers(s_issuer, RVL_CERT_ISSUER_ROOT)
           c == ScanCompared(RVL_CERT_ISSUER_ROOT, i)
       IN  IF i < RVL_CERT_ISSUER_MAX
             THEN [ret |-> i, errno |-> e, compared |-> c]
             ELSE [ret |-> RVL_CERT_ISSUER_UNKNOWN, errno |-> ERANGE, compared |-> c]

\* cert_get_issuer_from_name reporting a null name as a failed search.
cert_get_issuer_from_name_null_is_erange(s_issuer, e) ==
  IF s_issuer = NULLSTR
    THEN [ret |-> RVL_CERT_ISSUER_UNKNOWN, errno |-> ERANGE, compared |-> {}]
  ELSE IF CharAt(s_issuer, 1) = NUL
    THEN [ret |-> RVL_CERT_ISSUER_ROOT, errno |-> e, compared |-> {}]
  ELSE LET i == ScanIssuers(s_issuer, RVL_CERT_ISSUER_ROOT)
           c == ScanCompared(RVL_CERT_ISSUER_ROOT, i)
       IN  IF i < RVL_CERT_ISSUER_MAX
             THEN [ret |-> i, errno |-> e, compared |-> c]
             ELSE [ret |-> RVL_CERT_ISSUER_UNKNOWN, errno |-> ERANGE, compared |-> c]

\* cert_get_issuer_from_name scanning from the first entry after the root.
cert_get_issuer_from_name_skips_root(s_issuer, e) ==
  IF s_issuer = NULLSTR
    THEN [ret |-> RVL_CERT_ISSUER_UNKNOWN, errno |-> EINVAL, compared |-> {}]
  ELSE IF CharAt(s_issuer, 1) = NUL
    THEN [ret |-> RVL_CERT_ISSUER_ROOT, errno |-> e, compared |-> {}]
  ELSE LET i == ScanIssuers(s_issuer, RVL_CERT_ISSUER_ROOT + 1)
           c == ScanCompared(RVL_CERT_ISSUER_ROOT + 1, i)
       IN  IF i < RVL_CERT_ISSUER_MAX
             THEN [ret |-> i, errno |-> e, compared |-> c]
             ELSE [ret |-> RVL_CERT_ISSUER_UNKNOWN, errno |-> ERANGE, compared |-> c]

\* cert_get_issuer_from_name with an arm of its own for "Root" ahead of the
\* loop, and the loop starting at the first entry after the root.
cert_get_issuer_from_name_root_arm_first(s_issuer, e) ==
  IF s_issuer = NULLSTR
    THEN [ret |-> RVL_CERT_ISSUER_UNKNOWN, errno |-> EINVAL, compared |-> {}]
  ELSE IF CharAt(s_issuer, 1) = NUL \/ s_issuer = <<"R","o","o","t">>
    THEN [ret |-> RVL_CERT_ISSUER_ROOT, errno |-> e, compared |-> {}]
  ELSE LET i == ScanIssuers(s_issuer, RVL_CERT_ISSUER_ROOT + 1)
           c == ScanCompared(RVL_CERT_ISSUER_ROOT + 1, i)
       IN  IF i < RVL_CERT_ISSUER_MAX
             THEN [ret |-> i, errno |-> e, compared |-> c]
             ELSE [ret |-> RVL_CERT_ISSUER_UNKNOWN, errno |-> ERANGE, compared |-> c]

\* Convert a certificate issuer name to RVL_Cert_Issuer.
cert_get_issuer_from_name(s_issuer, e) ==
  IF s_issuer = NULLSTR
    THEN [ret |-> RVL_CERT_ISSUER_UNKNOWN, errno |-> EINVAL, compared |-> {}]
  ELSE IF CharAt(s_issuer, 1) = NUL
    THEN [ret |-> RVL_CERT_ISSUER_ROOT, errno |-> e, compared |-> {}]
  ELSE LET i == ScanIssuers(s_issuer, RVL_CERT_ISSUER_ROOT)
           c == ScanCompared(RVL_CERT_ISSUER_ROOT, i)
       IN  IF i < RVL_CERT_ISSUER_MAX
             THEN [ret |-> i, errno |-> e, compared |-> c]
             ELSE [ret |-> RVL_CERT_ISSUER_UNKNOWN, errno |-> ERANGE, compared |-> c]

\* The condition asserted by cert_get and cert_get_size.
IssuerInRange(issuer) ==
  issuer > RVL_CERT_ISSUER_UNKNOWN /\ issuer < RVL_CERT_ISSUER_MAX

\* Get a standard certificate.  With assertions compiled in (nd = FALSE) a
\* failed assert aborts the process before anything is returned.
cert_get(issuer, e, nd) ==
  IF ~nd /\ ~IssuerInRange(issuer)
    THEN [aborted |-> TRUE, ret |-> NULL, errno |-> e]
  ELSE IF issuer <= RVL_CERT_ISSUER_UNKNOWN \/ issuer >= RVL_CERT_ISSUER_MAX
    THEN [aborted |-> FALSE, ret |-> NULL, errno |-> ERANGE]
  ELSE [aborted |-> FALSE, ret |-> certs[issuer], errno |-> e]

\* cert_get_from_name fetching the entry after the resolved one.
cert_get_from_name_off_by_one(s_issuer, e, nd) ==
  LET r == cert_get_issuer_from_name(s_issuer, e)
  IN  IF r.ret = RVL_CERT_ISSUER_UNKNOWN
        THEN [aborted |-> FALSE, ret |-> NULL, errno |-> r.errno]
        ELSE cert_get(r.ret + 1, r.errno, nd)

\* cert_get_from_name taking a non-zero errno after the lookup for a failure
\* of the lookup.
cert_get_from_name_checks_errno(s_issuer, e, nd) ==
  LET r == cert_get_issuer_from_name(s_issuer, e)
  IN  IF r.ret = RVL_CERT_ISSUER_UNKNOWN \/ r.errno # ENoError
        THEN [aborted |-> FALSE, ret |-> NULL, errno |-> r.errno]
        ELSE cert_get(r.ret, r.errno, nd)

\* cert_get_from_name passing whatever the lookup returned on to cert_get.
cert_get_from_name_unchecked(s_issuer, e, nd) ==
  LET r == cert_get_issuer_from_name(s_issuer, e)
  IN  cert_get(r.ret, r.errno, nd)

\* Get a standard certificate by issuer name.
cert_get_from_name(s_issuer, e, nd) ==
  LET r == cert_get_issuer_from_name(s_issuer, e)
  IN  IF r.ret = RVL_CERT_ISSUER_UNKNOWN
        THEN [aborted |-> FALSE, ret |-> NULL, errno |-> r.errno]
        ELSE cert_get(r.ret, r.errno, nd)

\* Get the size of a certificate.
cert_get_size(issuer, e, nd) ==
  IF ~nd /\ ~IssuerInRange(issuer)
    THEN [aborted |-> TRUE, ret |-> 0, errno |-> e]
  ELSE IF issuer <= RVL_CERT_ISSUER_UNKNOWN \/ issuer >= RVL_CERT_ISSUER_MAX
    THEN [aborted |-> FALSE, ret |-> 0, errno |-> ERANGE]
  ELSE [aborted |-> FALSE, ret |-> cert_sizes[issuer], errno |-> e]

(***************************************************************************)
(* Arguments the callers pass.                                             *)
(***************************************************************************)
\* The stored chain names.
StoredNames == { RVL_Cert_Issuers[i] : i \in ValidIssuers }

\* The stored names and their prefixes that drop up to MaxTrim characters.
Prefixes ==
  UNION { { SubSeq(n, 1, Len(n) - d) : d \in 0..MaxTrim } : n \in StoredNames }

\* Characters appended to a stored name.
ExtChars == { "-", "x" }

RECURSIVE Extensions(_, _)
\* The strings that extend s by 1..k characters.
Extensions(s, k) ==
  IF k = 0 THEN {}
  ELSE LET one == { s \o <<c>> : c \in ExtChars }
       IN  one \cup UNION { Extensions(x, k - 1) : x \in one }

\* Names that resemble stored names without being one: a stored name with a
\* suffix, a leaf identity alone, a name in the wrong case.
OtherNames ==
  { <<"R","o","o","t","-","C","A","0","0","0","0","0","0","0","1","-","X","S","0","0","0","0","0","0","0","3","-","e","x","t","r","a">>,
    <<"C","A","0","0","0","0","0","0","0","1">>,
    <<"X","S","0","0","0","0","0","0","0","3">>,
    <<"r","o","o","t">>,
    <<"x">> }

\* The name arguments: absent, empty, stored, near misses.
NameArgs ==
  {NULLSTR, <<>>} \cup Prefixes \cup OtherNames
  \cup UNION { Extensions(n, MaxExtend) : n \in StoredNames }

\* The index arguments: the enumeration (whose values are not negative) and
\* values past its end.
IssuerArgs ==
  RVL_CERT_ISSUER_UNKNOWN..(RVL_CERT_ISSUER_MAX + IndexMargin)

(***************************************************************************)
(* State.                                                                  *)
(***************************************************************************)
VARIABLES
  errno,    \* the thread's error indicator
  ndebug,   \* TRUE when the build defines NDEBUG (assert compiled out)
  aborted,  \* TRUE once a failed assert has terminated the process
  call,     \* the last call made: operation, argument, errno at entry, result,
            \* and the entries of RVL_Cert_Issuers it compared the name with
  walk,     \* the indices a caller walking a trust chain has been at, in
            \* order; empty when no walk is under way
  thr       \* the reader threads of a multi-threaded process: for each, where
            \* it is in its call, the call's arguments and locals, and the
            \* thread's own errno

vars == << errno, ndebug, aborted, call, walk, thr >>

NoCall ==
  [ op |-> "none", s_issuer |-> NULLSTR, issuer |-> RVL_CERT_ISSUER_UNKNOWN,
    errno_in |-> ENoError, returned |-> FALSE,
    ret_issuer |-> RVL_CERT_ISSUER_UNKNOWN, ret_cert |-> NULL, ret_size |-> 0,
    compared |-> {} ]

Threads == 1..NumThreads

\* A reader thread that has made no call.
IdleReader ==
  [ pc |-> "idle", op |-> "none", s_issuer |-> NULLSTR,
    issuer |-> RVL_CERT_ISSUER_UNKNOWN, i |-> RVL_CERT_ISSUER_UNKNOWN,
    errno |-> ENoError, errno_in |-> ENoError,
    ret_issuer |-> RVL_CERT_ISSUER_UNKNOWN, ret_cert |-> NULL, ret_size |-> 0 ]

Init ==
  /\ thr = [t \in Threads |-> IdleReader]
  /\ errno = ENoError
  /\ ndebug \in BOOLEAN
  /\ aborted = FALSE
  /\ call = NoCall
  /\ walk = << >>

\* A caller invokes cert_get_issuer_from_name(s).
CallGetIssuerFromName(s) ==
  /\ ~aborted
  /\ LET r == cert_get_issuer_from_name(s, errno)
     IN  /\ errno' = r.errno
         /\ call' = [NoCall EXCEPT !.op = "cert_get_issuer_from_name",
                                   !.s_issuer = s, !.errno_in = errno,
                                   !.returned = TRUE, !.ret_issuer = r.ret,
                                   !.compared = r.compared]
  /\ walk' = << >>
  /\ UNCHANGED thr
  /\ UNCHANGED << ndebug, aborted >>

\* A caller invokes cert_get(i).
CallCertGet(i) ==
  /\ ~aborted
  /\ LET r == cert_get(i, errno, ndebug)
     IN  /\ errno' = r.errno
         /\ aborted' = r.aborted
         /\ call' = [NoCall EXCEPT !.op = "cert_get", !.issuer = i,
                                   !.errno_in = errno,
                                   !.returned = ~r.aborted, !.ret_cert = r.ret]
  /\ walk' = << >>
  /\ UNCHANGED thr
  /\ UNCHANGED ndebug

\* A caller invokes cert_get_from_name(s).
CallCertGetFromName(s) ==
  /\ ~aborted
  /\ LET r == cert_get_from_name(s, errno, ndebug)
     IN  /\ errno' = r.errno
         /\ aborted' = r.aborted
         /\ call' = [NoCall EXCEPT !.op = "cert_get_from_name", !.s_issuer = s,
                                   !.errno_in = errno,
                                   !.returned = ~r.aborted, !.ret_cert = r.ret]
  /\ walk' = << >>
  /\ UNCHANGED thr
  /\ UNCHANGED ndebug

\* A caller invokes cert_get_size(i).
CallCertGetSize(i) ==
  /\ ~aborted
  /\ LET r == cert_get_size(i, errno, ndebug)
     IN  /\ errno' = r.errno
         /\ aborted' = r.aborted
         /\ call' = [NoCall EXCEPT !.op = "cert_get_size", !.issuer = i,
                                   !.errno_in = errno,
                                   !.returned = ~r.aborted, !.ret_size = r.ret]
  /\ walk' = << >>
  /\ UNCHANGED thr
  /\ UNCHANGED ndebug

\* The issuer field of a record, read as a C string.
IssuerOf(rec) == CStr(rec.sig.issuer)

\* The last call fetched the record of the index the walk is at.
WalkFetched ==
  /\ walk # << >>
  /\ call.op = "cert_get"
  /\ call.issuer = walk[Len(walk)]

\* A caller starts walking the trust chain at index i.
WalkStart(i) ==
  /\ ~aborted
  /\ walk' = << i >>
  /\ call' = NoCall
  /\ UNCHANGED << errno, ndebug, aborted, thr >>

\* The walker calls cert_get on the index it is at; the walk ends at the root.
WalkFetch ==
  /\ ~aborted
  /\ walk # << >>
  /\ ~WalkFetched
  /\ walk[Len(walk)] # RVL_CERT_ISSUER_ROOT
  /\ LET r == cert_get(walk[Len(walk)], errno, ndebug)
     IN  /\ errno' = r.errno
         /\ aborted' = r.aborted
         /\ call' = [NoCall EXCEPT !.op = "cert_get",
                                   !.issuer = walk[Len(walk)],
                                   !.errno_in = errno,
                                   !.returned = ~r.aborted, !.ret_cert = r.ret]
  /\ UNCHANGED << ndebug, walk, thr >>

\* The walker calls cert_get_issuer_from_name on the issuer field of the
\* record it fetched and moves to the index returned.
WalkResolve ==
  /\ ~aborted
  /\ WalkFetched
  /\ call.returned
  /\ call.ret_cert # NULL
  /\ Len(walk) <= MaxWalk
  /\ LET s == IssuerOf(Deref(call.ret_cert))
         r == cert_get_issuer_from_name(s, errno)
     IN  /\ errno' = r.errno
         /\ call' = [NoCall EXCEPT !.op = "cert_get_issuer_from_name",
                                   !.s_issuer = s, !.errno_in = errno,
                                   !.returned = TRUE, !.ret_issuer = r.ret,
                                   !.compared = r.compared]
         /\ walk' = Append(walk, r.ret)
  /\ UNCHANGED << ndebug, aborted, thr >>

Next ==
  \/ \E s \in NameArgs : CallGetIssuerFromName(s)
  \/ \E i \in IssuerArgs : CallCertGet(i)
  \/ \E s \in NameArgs : CallCertGetFromName(s)
  \/ \E i \in IssuerArgs : CallCertGetSize(i)
  \/ \E i \in ValidIssuers : WalkStart(i)
  \/ WalkFetch
  \/ WalkResolve

Spec == Init /\ [][Next]_vars

(***************************************************************************)
(* Concurrent readers.  Each thread runs its call one step at a time: the  *)
(* argument checks, each strcmp of the scan, the assert and the range test *)
(* are steps that other threads' steps may come between.  The tables are   *)
(* constant data; errno is the calling thread's own.                       *)
(***************************************************************************)
\* The names and indices the reader threads call with.
ConcNames ==
  { NULLSTR, << >>, RVL_Cert_Issuers[RVL_CERT_ISSUER_RETAIL_CA], <<"x">> }

ConcIssuers == { RVL_CERT_ISSUER_UNKNOWN, RVL_CERT_ISSUER_RETAIL_CA }

ConcInit ==
  /\ thr = [t \in Threads |-> IdleReader]
  /\ ndebug \in BOOLEAN
  /\ aborted = FALSE
  /\ errno = ENoError
  /\ call = NoCall
  /\ walk = << >>

\* Thread t enters cert_get_issuer_from_name(s) or cert_get_from_name(s).
ReaderCallByName(t, op, s) ==
  /\ ~aborted
  /\ thr[t].pc = "idle"
  /\ thr' = [thr EXCEPT ![t] = [@ EXCEPT !.pc = "check_name", !.op = op,
                                         !.s_issuer = s,
                                         !.errno_in = thr[t].errno]]
  /\ UNCHANGED << errno, ndebug, aborted, call, walk >>

\* Thread t enters cert_get(i) or cert_get_size(i).
ReaderCallByIndex(t, op, i) ==
  /\ ~aborted
  /\ thr[t].pc = "idle"
  /\ thr' = [thr EXCEPT ![t] = [@ EXCEPT !.pc = "assert", !.op = op,
                                         !.issuer = i,
                                         !.errno_in = thr[t].errno]]
  /\ UNCHANGED << errno, ndebug, aborted, call, walk >>

\* cert_get_issuer_from_name: the NULL test and the empty-string test.
ReaderCheckName(t) ==
  /\ ~aborted
  /\ thr[t].pc = "check_name"
  /\ thr' = [thr EXCEPT ![t] =
       IF @.s_issuer = NULLSTR
         THEN [@ EXCEPT !.errno = EINVAL,
                        !.ret_issuer = RVL_CERT_ISSUER_UNKNOWN,
                        !.pc = "name_return"]
       ELSE IF CharAt(@.s_issuer, 1) = NUL
         THEN [@ EXCEPT !.ret_issuer = RVL_CERT_ISSUER_ROOT,
                        !.pc = "name_return"]
       ELSE [@ EXCEPT !.i = RVL_CERT_ISSUER_ROOT, !.pc = "scan"]]
  /\ UNCHANGED << errno, ndebug, aborted, call, walk >>

\* cert_get_issuer_from_name: one turn of the loop, or the fall-through at
\* its end.
ReaderScan(t) ==
  /\ ~aborted
  /\ thr[t].pc = "scan"
  /\ thr' = [thr EXCEPT ![t] =
       IF @.i < RVL_CERT_ISSUER_MAX
         THEN IF strcmp(@.s_issuer, RVL_Cert_Issuers[@.i]) = 0
                THEN [@ EXCEPT !.ret_issuer = thr[t].i, !.pc = "name_return"]
                ELSE [@ EXCEPT !.i = @ + 1]
         ELSE [@ EXCEPT !.errno = ERANGE,
                        !.ret_issuer = RVL_CERT_ISSUER_UNKNOWN,
                        !.pc = "name_return"]]
  /\ UNCHANGED << errno, ndebug, aborted, call, walk >>

\* cert_get_issuer_from_name returns: to the thread's caller, or into
\* cert_get_from_name, which returns NULL for Unknown and otherwise goes on
\* into cert_get.
ReaderNameReturn(t) ==
  /\ ~aborted
  /\ thr[t].pc = "name_return"
  /\ thr' = [thr EXCEPT ![t] =
       IF @.op = "cert_get_issuer_from_name"
         THEN [@ EXCEPT !.pc = "done"]
       ELSE IF @.ret_issuer = RVL_CERT_ISSUER_UNKNOWN
         THEN [@ EXCEPT !.ret_cert = NULL, !.pc = "done"]
       ELSE [@ EXCEPT !.issuer = thr[t].ret_issuer, !.pc = "assert"]]
  /\ UNCHANGED << errno, ndebug, aborted, call, walk >>

\* cert_get, cert_get_size: the assert on the index, which ends the process
\* (every thread of it) when it fails in a build that compiles it in.
ReaderAssert(t) ==
  /\ ~aborted
  /\ thr[t].pc = "assert"
  /\ IF ~ndebug /\ ~IssuerInRange(thr[t].issuer)
       THEN /\ aborted' = TRUE
            /\ thr' = [thr EXCEPT ![t].pc = "abort"]
       ELSE /\ aborted' = FALSE
            /\ thr' = [thr EXCEPT ![t].pc = "range"]
  /\ UNCHANGED << errno, ndebug, call, walk >>

\* cert_get, cert_get_size: the range test and the table read.
ReaderRange(t) ==
  /\ ~aborted
  /\ thr[t].pc = "range"
  /\ thr' = [thr EXCEPT ![t] =
       IF ~IssuerInRange(@.issuer)
         THEN [@ EXCEPT !.errno = ERANGE, !.ret_cert = NULL, !.ret_size = 0,
                        !.pc = "done"]
       ELSE IF @.op = "cert_get_size"
         THEN [@ EXCEPT !.ret_size = cert_sizes[thr[t].issuer], !.pc = "done"]
       ELSE [@ EXCEPT !.ret_cert = certs[thr[t].issuer], !.pc = "done"]]
  /\ UNCHANGED << errno, ndebug, aborted, call, walk >>

ConcNext ==
  \/ \E t \in Threads, s \in ConcNames :
       \E op \in {"cert_get_issuer_from_name", "cert_get_from_name"} :
         ReaderCallByName(t, op, s)
  \/ \E t \in Threads, i \in ConcIssuers :
       \E op \in {"cert_get", "cert_get_size"} : ReaderCallByIndex(t, op, i)
  \/ \E t \in Threads : ReaderCheckName(t)
  \/ \E t \in Threads : ReaderScan(t)
  \/ \E t \in Threads : ReaderNameReturn(t)
  \/ \E t \in Threads : ReaderAssert(t)
  \/ \E t \in Threads : ReaderRange(t)

ConcSpec == ConcInit /\ [][ConcNext]_vars

\* Every variable keeps to its domain.
TypeOK ==
  /\ errno \in {ENoError, EINVAL, ERANGE}
  /\ ndebug \in BOOLEAN
  /\ aborted \in BOOLEAN
  /\ call.op \in {"none", "cert_get_issuer_from_name", "cert_get",
                  "cert_get_from_name", "cert_get_size"}
  /\ call.ret_cert \in CertObjects \cup {NULL}
  /\ walk \in Seq(RVL_CERT_ISSUER_UNKNOWN..(RVL_CERT_ISSUER_MAX - 1))

(***************************************************************************)
(* Properties of cert_get_issuer_from_name.                                *)
(***************************************************************************)
\* "Root-CA00000001-XS00000003-extra"
NameWithSuffix ==
  <<"R","o","o","t","-","C","A","0","0","0","0","0","0","0","1","-","X","S","0","0","0","0","0","0","0","3","-","e","x","t","r","a">>

\* The last call was cert_get_issuer_from_name on a present, non-empty name.
ResolvedPresentName ==
  /\ call.op = "cert_get_issuer_from_name"
  /\ call.s_issuer # NULLSTR
  /\ call.s_issuer # <<>>

\* C1: for a present, non-empty name, cert_get_issuer_from_name returns index
\* i exactly when the name equals RVL_Cert_Issuers[i] as a whole string; a
\* name equal to no stored name (a proper prefix or extension of one included)
\* yields RVL_CERT_ISSUER_UNKNOWN with errno = ERANGE.
C1_ExactMatchOnly ==
  ResolvedPresentName =>
    /\ \A i \in ValidIssuers :
         (call.ret_issuer = i) <=> (call.s_issuer = RVL_Cert_Issuers[i])
    /\ (\A i \in ValidIssuers : call.s_issuer # RVL_Cert_Issuers[i]) =>
         /\ call.ret_issuer = RVL_CERT_ISSUER_UNKNOWN
         /\ errno = ERANGE

\* A stored name followed by "-extra" was looked up and matched nothing.
C1_Witness ==
  /\ call.op = "cert_get_issuer_from_name"
  /\ call.s_issuer = NameWithSuffix
  /\ call.ret_issuer = RVL_CERT_ISSUER_UNKNOWN
  /\ errno = ERANGE

\* C2: cert_get_issuer_from_name("") returns RVL_CERT_ISSUER_ROOT whatever
\* calls came before, and leaves errno as it found it.
C2_EmptyIsRoot ==
  (call.op = "cert_get_issuer_from_name" /\ call.s_issuer = <<>>) =>
    /\ call.ret_issuer = RVL_CERT_ISSUER_ROOT
    /\ errno = call.errno_in

\* "" was resolved to the root right after a call that had failed.
C2_Witness ==
  /\ call.op = "cert_get_issuer_from_name"
  /\ call.s_issuer = <<>>
  /\ call.errno_in = ERANGE
  /\ call.ret_issuer = RVL_CERT_ISSUER_ROOT

\* C3: cert_get_issuer_from_name(NULL) returns RVL_CERT_ISSUER_UNKNOWN and
\* sets errno to EINVAL, not ERANGE.
C3_NullIsInvalidArgument ==
  (call.op = "cert_get_issuer_from_name" /\ call.s_issuer = NULLSTR) =>
    /\ call.ret_issuer = RVL_CERT_ISSUER_UNKNOWN
    /\ errno = EINVAL
    /\ errno # ERANGE

\* A null name was passed while errno held ERANGE from an earlier call.
C3_Witness ==
  /\ call.op = "cert_get_issuer_from_name"
  /\ call.s_issuer = NULLSTR
  /\ call.errno_in = ERANGE
  /\ errno = EINVAL

\* C4: every stored name resolves to its own index, and the stored names are
\* pairwise distinct.
C4_RoundTrip ==
  /\ \A i \in ValidIssuers :
       cert_get_issuer_from_name(RVL_Cert_Issuers[i], errno).ret = i
  /\ \A i, j \in ValidIssuers :
       i # j => RVL_Cert_Issuers[i] # RVL_Cert_Issuers[j]
  /\ \A i \in ValidIssuers :
       (call.op = "cert_get_issuer_from_name"
          /\ call.s_issuer = RVL_Cert_Issuers[i]) => call.ret_issuer = i

\* The last stored name was looked up and came back as the last index.
C4_Witness ==
  /\ call.op = "cert_get_issuer_from_name"
  /\ call.s_issuer = RVL_Cert_Issuers[RVL_CERT_ISSUER_DEBUG_DEV]
  /\ call.ret_issuer = RVL_CERT_ISSUER_DEBUG_DEV

(***************************************************************************)
(* Properties of cert_get, cert_get_size and cert_get_from_name.           *)
(***************************************************************************)
\* C5: cert_get and cert_get_size have the same error domain: for an index
\* that is RVL_CERT_ISSUER_UNKNOWN or outside the enumeration cert_get returns
\* NULL and cert_get_size returns 0, each with errno = ERANGE; for each of the
\* 8 valid indices cert_get returns a record and cert_get_size a non-zero size.
C5_SameErrorDomain ==
  /\ call.op = "cert_get" =>
       /\ call.returned
       /\ call.issuer \notin ValidIssuers =>
            (call.ret_cert = NULL /\ errno = ERANGE)
       /\ call.issuer \in ValidIssuers => call.ret_cert # NULL
  /\ call.op = "cert_get_size" =>
       /\ call.returned
       /\ call.issuer \notin ValidIssuers =>
            (call.ret_size = 0 /\ errno = ERANGE)
       /\ call.issuer \in ValidIssuers => call.ret_size # 0

\* C6: no call to any of the four functions terminates the process, whatever
\* its argument.
C6_NeverAborts == ~aborted

\* "Root"
RootName == <<"R","o","o","t">>

\* C7: cert_get_from_name is cert_get after cert_get_issuer_from_name: when
\* the name resolves to a valid index the record is that of cert_get for the
\* index; otherwise there is no record and errno is the resolver's (EINVAL
\* for a null name, ERANGE for an unmatched one).
C7_ByNameIsComposition ==
  call.op = "cert_get_from_name" =>
    LET r == cert_get_issuer_from_name(call.s_issuer, call.errno_in)
    IN  IF r.ret \in ValidIssuers
          THEN /\ call.returned
               /\ call.ret_cert = cert_get(r.ret, call.errno_in, ndebug).ret
               /\ call.ret_cert = certs[r.ret]
          ELSE /\ call.returned
               /\ call.ret_cert = NULL
               /\ errno = r.errno
               /\ errno = IF call.s_issuer = NULLSTR THEN EINVAL ELSE ERANGE

\* A stored chain name was fetched by name and gave that entry's record.
C7_Witness ==
  /\ call.op = "cert_get_from_name"
  /\ call.s_issuer = RVL_Cert_Issuers[RVL_CERT_ISSUER_RETAIL_TMD]
  /\ call.ret_cert = "cert_retail_tmd"

\* C8: cert_get_from_name("Root") returns the record cert_get returns for
\* RVL_CERT_ISSUER_ROOT, the same object with the same content.
C8_RootByName ==
  (call.op = "cert_get_from_name" /\ call.s_issuer = RootName) =>
    /\ call.returned
    /\ call.ret_cert # NULL
    /\ call.ret_cert = cert_get(RVL_CERT_ISSUER_ROOT, call.errno_in, ndebug).ret
    /\ Deref(call.ret_cert) = cert_root

\* "Root" was fetched by name and gave the root record.
C8_Witness ==
  /\ call.op = "cert_get_from_name"
  /\ call.s_issuer = RootName
  /\ call.ret_cert = "cert_root"

(***************************************************************************)
(* Record sizes.                                                           *)
(***************************************************************************)
\* Longest chain of indices whose sizes are summed.
MaxChain == 2

\* The signature block kind a stored signature type tag stands for.
SigKindOf(tag) ==
  CASE tag = BE32_CONST(RVL_CERT_SIGTYPE_RSA4096) -> "RSA4096"
    [] tag = BE32_CONST(RVL_CERT_SIGTYPE_RSA2048) -> "RSA2048"
    [] tag = U32(0) -> "Dummy"

\* The public key block kind a stored key type tag stands for.
KeyKindOf(tag) ==
  CASE tag = BE32_CONST(RVL_CERT_KEYTYPE_RSA4096) -> "RSA4096"
    [] tag = BE32_CONST(RVL_CERT_KEYTYPE_RSA2048) -> "RSA2048"
    [] tag = BE32_CONST(RVL_CERT_KEYTYPE_ECC) -> "ECC"

\* Byte length of the layout that a record's two tags select.
LayoutSize(rec) ==
  SigBlockSize(SigKindOf(rec.sig.type)) + PubKeyBlockSize(KeyKindOf(rec.pub.type))

\* The chains of 0..n valid indices.
RECURSIVE Chains(_)
Chains(n) ==
  IF n = 0 THEN { <<>> }
  ELSE LET shorter == Chains(n - 1)
       IN  shorter \cup { Append(c, i) : c \in shorter, i \in ValidIssuers }

RECURSIVE SumOver(_, _)
\* f summed over a chain of indices.
SumOver(f, chain) ==
  IF chain = <<>> THEN 0
  ELSE f[Head(chain)] + SumOver(f, Tail(chain))

\* C9: for each valid index cert_get_size gives the byte size of the layout of
\* the record cert_get returns for that index; the size depends only on the
\* record's (signature type, key type) pair; the sum of the sizes over a chain
\* of indices is the length of the chain's records laid end to end.
C9_SizeIsLayoutSize ==
  /\ \A i \in ValidIssuers :
       /\ cert_get_size(i, errno, ndebug).ret
            = LayoutSize(Deref(cert_get(i, errno, ndebug).ret))
       /\ cert_sizes[i] = sizeof(certs[i])
  /\ \A i, j \in ValidIssuers :
       LET ri == Deref(certs[i])
           rj == Deref(certs[j])
       IN  (ri.sig.type = rj.sig.type /\ ri.pub.type = rj.pub.type)
             => cert_sizes[i] = cert_sizes[j]
  /\ \A chain \in Chains(MaxChain) :
       SumOver(cert_sizes, chain)
         = SumOver([i \in ValidIssuers |-> LayoutSize(Deref(certs[i]))], chain)
  /\ (call.op = "cert_get_size" /\ call.issuer \in ValidIssuers) =>
       call.ret_size = LayoutSize(Deref(certs[call.issuer]))

\* The size of the retail CA record was asked for and is that of an RSA-4096
\* signature over an RSA-2048 key, unlike the size of the ticket record.
C9_Witness ==
  /\ call.op = "cert_get_size"
  /\ call.issuer = RVL_CERT_ISSUER_RETAIL_CA
  /\ call.ret_size = SigBlockSize("RSA4096") + PubKeyBlockSize("RSA2048")
  /\ call.ret_size # cert_sizes[RVL_CERT_ISSUER_RETAIL_TICKET]

(***************************************************************************)
(* The trust chain.                                                        *)
(***************************************************************************)

\* C10: the issuer of every record cert_get returns for a valid index is,
\* when non-empty, the stored name of some other valid index.
C10_IssuerIsInTable ==
  /\ \A i \in ValidIssuers :
       LET iss == IssuerOf(Deref(certs[i]))
       IN  iss # <<>> =>
             \E j \in ValidIssuers \ {i} : iss = RVL_Cert_Issuers[j]
  /\ (call.op = "cert_get" /\ call.returned /\ call.ret_cert # NULL) =>
       LET iss == IssuerOf(Deref(call.ret_cert))
       IN  iss # <<>> =>
             \E j \in ValidIssuers \ {call.issuer} : iss = RVL_Cert_Issuers[j]

\* The development record was fetched; its issuer is the debug CA's name.
C10_Witness ==
  /\ call.op = "cert_get"
  /\ call.issuer = RVL_CERT_ISSUER_DEBUG_DEV
  /\ call.ret_cert = "cert_debug_dev"
  /\ IssuerOf(Deref(call.ret_cert)) = RVL_Cert_Issuers[RVL_CERT_ISSUER_DEBUG_CA]

\* The record cert_get returns for a valid index, in the current state.
RecordOf(i) == Deref(cert_get(i, errno, ndebug).ret)

\* C11: of the records cert_get gives out exactly one has an empty issuer
\* field, the root record, whose signature type is zero; every other record
\* has a non-empty issuer.
C11_OnlyRootHasNoIssuer ==
  /\ { i \in ValidIssuers : IssuerOf(RecordOf(i)) = <<>> } = { RVL_CERT_ISSUER_ROOT }
  /\ RecordOf(RVL_CERT_ISSUER_ROOT).sig.type = << 0, 0, 0, 0 >>
  /\ (call.op = "cert_get" /\ call.returned /\ call.ret_cert # NULL) =>
       ((IssuerOf(Deref(call.ret_cert)) = <<>>)
          <=> (call.issuer = RVL_CERT_ISSUER_ROOT))

\* The root record was fetched and its issuer field is empty.
C11_Witness ==
  /\ call.op = "cert_get"
  /\ call.issuer = RVL_CERT_ISSUER_ROOT
  /\ call.ret_cert = "cert_root"
  /\ IssuerOf(Deref(call.ret_cert)) = <<>>

\* The child identity string of a record's public key block.
ChildIdentityOf(rec) == CStr(rec.pub.child_cert_id)

\* C12: the stored name of every non-root index is the issuer of its record,
\* "-", and the record's child identity; that issuer is the whole stored name
\* of the signer; the stored name of the root is its child identity "Root".
C12_NameIsIssuerDashChild ==
  /\ \A i \in ValidIssuers \ { RVL_CERT_ISSUER_ROOT } :
       LET rec == RecordOf(i)
       IN  /\ RVL_Cert_Issuers[i]
                = IssuerOf(rec) \o <<"-">> \o ChildIdentityOf(rec)
           /\ \E j \in ValidIssuers :
                /\ IssuerOf(rec) = RVL_Cert_Issuers[j]
                /\ (j # RVL_CERT_ISSUER_ROOT =>
                      IssuerOf(rec) # ChildIdentityOf(RecordOf(j)))
  /\ RVL_Cert_Issuers[RVL_CERT_ISSUER_ROOT]
       = ChildIdentityOf(RecordOf(RVL_CERT_ISSUER_ROOT))
  /\ RVL_Cert_Issuers[RVL_CERT_ISSUER_ROOT] = <<"R","o","o","t">>
  /\ (call.op = "cert_get" /\ call.returned /\ call.ret_cert # NULL
        /\ call.issuer # RVL_CERT_ISSUER_ROOT) =>
       RVL_Cert_Issuers[call.issuer]
         = IssuerOf(Deref(call.ret_cert)) \o <<"-">>
             \o ChildIdentityOf(Deref(call.ret_cert))

\* The retail ticket record was fetched: issuer "Root-CA00000001", child
\* identity "XS00000003".
C12_Witness ==
  /\ call.op = "cert_get"
  /\ call.issuer = RVL_CERT_ISSUER_RETAIL_TICKET
  /\ call.ret_cert = "cert_retail_ticket"
  /\ IssuerOf(Deref(call.ret_cert)) = RVL_Cert_Issuers[RVL_CERT_ISSUER_RETAIL_CA]
  /\ ChildIdentityOf(Deref(call.ret_cert)) = <<"X","S","0","0","0","0","0","0","0","3">>

\* The records the table gives out for the indices of a set.
RecordsAt(indices) == { cert_get(i, errno, ndebug).ret : i \in indices } \ { NULL }

\* C13 as stated: the table holds 9 records, 1 root, 4 retail and 4 debug.
C13_NineRecords ==
  /\ Cardinality(RecordsAt(ValidIssuers)) = 9
  /\ Cardinality(RecordsAt({ RVL_CERT_ISSUER_ROOT })) = 1
  /\ Cardinality(RecordsAt(RetailIssuers)) = 4
  /\ Cardinality(RecordsAt(DebugIssuers)) = 4

\* C13 amended: the table has 9 slots; slot RVL_CERT_ISSUER_UNKNOWN holds no
\* record and the other 8 hold 8 different records, 1 root, 3 retail and
\* 4 debug, each given out by cert_get for its own index.
C13_EightRecords ==
  /\ Cardinality(DOMAIN certs) = 9
  /\ certs[RVL_CERT_ISSUER_UNKNOWN] = NULL
  /\ Cardinality(RecordsAt(ValidIssuers)) = 8
  /\ Cardinality(RecordsAt({ RVL_CERT_ISSUER_ROOT })) = 1
  /\ Cardinality(RecordsAt(RetailIssuers)) = 3
  /\ Cardinality(RecordsAt(DebugIssuers)) = 4
  /\ ValidIssuers = { RVL_CERT_ISSUER_ROOT } \cup RetailIssuers \cup DebugIssuers
  /\ (call.op = "cert_get" /\ call.issuer \in ValidIssuers) =>
       /\ call.returned
       /\ call.ret_cert \in CertObjects
       /\ \A j \in ValidIssuers \ { call.issuer } :
            cert_get(j, errno, ndebug).ret # call.ret_cert

\* The last retail record was fetched by its own index.
C13_Witness ==
  /\ call.op = "cert_get"
  /\ call.issuer = RVL_CERT_ISSUER_RETAIL_TMD
  /\ call.ret_cert = "cert_retail_tmd"

(***************************************************************************)
(* Frame properties.                                                       *)
(***************************************************************************)
\* C14: whatever calls were made before, every call gives what it gives on a
\* process that has made none: the index for a name, the record for an index
\* or a name, the size for an index (the tables the calls read are constant
\* data that no call writes).
C14_ResultsIndependentOfHistory ==
  /\ \A s \in NameArgs :
       /\ cert_get_issuer_from_name(s, errno).ret
            = cert_get_issuer_from_name(s, ENoError).ret
       /\ cert_get_from_name(s, errno, ndebug).ret
            = cert_get_from_name(s, ENoError, ndebug).ret
  /\ \A i \in IssuerArgs :
       /\ cert_get(i, errno, ndebug).ret = cert_get(i, ENoError, ndebug).ret
       /\ cert_get(i, errno, ndebug).aborted = cert_get(i, ENoError, ndebug).aborted
       /\ cert_get_size(i, errno, ndebug).ret = cert_get_size(i, ENoError, ndebug).ret
  /\ call.op = "cert_get_issuer_from_name" =>
       call.ret_issuer = cert_get_issuer_from_name(call.s_issuer, ENoError).ret
  /\ call.op = "cert_get" =>
       call.ret_cert = cert_get(call.issuer, ENoError, ndebug).ret
  /\ call.op = "cert_get_from_name" =>
       call.ret_cert = cert_get_from_name(call.s_issuer, ENoError, ndebug).ret
  /\ call.op = "cert_get_size" =>
       call.ret_size = cert_get_size(call.issuer, ENoError, ndebug).ret

\* A stored name was fetched by name right after a call that failed, and gave
\* its record all the same.
C14_Witness ==
  /\ call.op = "cert_get_from_name"
  /\ call.errno_in = ERANGE
  /\ call.s_issuer = RVL_Cert_Issuers[RVL_CERT_ISSUER_DEBUG_TMD]
  /\ call.ret_cert = "cert_debug_tmd"

\* The last call came back with a usable value.
CallSucceeded ==
  /\ call.returned
  /\ call.op = "cert_get_issuer_from_name" => call.ret_issuer # RVL_CERT_ISSUER_UNKNOWN
  /\ call.op \in {"cert_get", "cert_get_from_name"} => call.ret_cert # NULL
  /\ call.op = "cert_get_size" => call.ret_size # 0

\* C15: a call that succeeds leaves errno as it was at entry; a call that
\* fails leaves EINVAL or ERANGE in it.
C15_ErrnoWrittenOnFailureOnly ==
  call.op # "none" =>
    IF CallSucceeded THEN errno = call.errno_in
    ELSE errno \in { EINVAL, ERANGE }

\* C18: cert_get_issuer_from_name returns RVL_CERT_ISSUER_UNKNOWN or an index
\* inside the enumeration, and cert_get_from_name hands cert_get only the
\* latter, so the assertion of cert_get never fails under cert_get_from_name.
C18_ByNameNeverTripsAssert ==
  /\ call.op = "cert_get_issuer_from_name" =>
       (call.ret_issuer = RVL_CERT_ISSUER_UNKNOWN \/ IssuerInRange(call.ret_issuer))
  /\ call.op = "cert_get_from_name" =>
       /\ ~aborted
       /\ call.returned
       /\ LET r == cert_get_issuer_from_name(call.s_issuer, call.errno_in)
          IN  /\ r.ret = RVL_CERT_ISSUER_UNKNOWN \/ IssuerInRange(r.ret)
              /\ r.ret = RVL_CERT_ISSUER_UNKNOWN => call.ret_cert = NULL

\* With assertions compiled in, a name that matches nothing was fetched by
\* name: no record came back and the process is still running.
C18_Witness ==
  /\ ~ndebug
  /\ ~aborted
  /\ call.op = "cert_get_from_name"
  /\ call.s_issuer = NameWithSuffix
  /\ call.ret_cert = NULL
  /\ call.returned

(***************************************************************************)
(* The scan of cert_get_issuer_from_name.                                  *)
(***************************************************************************)
\* C17 as stated: for a present, non-empty name the scan starts at the first
\* entry after the root, so neither the root's entry nor the Unknown slot is
\* compared with the name.
C17_ScanSkipsRoot ==
  ResolvedPresentName =>
    /\ RVL_CERT_ISSUER_ROOT \notin call.compared
    /\ RVL_CERT_ISSUER_UNKNOWN \notin call.compared
    /\ call.compared \subseteq (RVL_CERT_ISSUER_ROOT + 1)..(RVL_CERT_ISSUER_MAX - 1)

\* C17 amended: for a present, non-empty name the scan starts at the root's
\* entry and goes on to the first match or to the end of the enumeration; the
\* root's entry "Root" is always compared, the Unknown slot never.
C17_ScanStartsAtRoot ==
  ResolvedPresentName =>
    /\ RVL_CERT_ISSUER_ROOT \in call.compared
    /\ RVL_CERT_ISSUER_UNKNOWN \notin call.compared
    /\ call.compared =
         IF call.ret_issuer = RVL_CERT_ISSUER_UNKNOWN THEN ValidIssuers
         ELSE RVL_CERT_ISSUER_ROOT..call.ret_issuer
    /\ \A i \in call.compared \ { call.ret_issuer } :
         call.s_issuer # RVL_Cert_Issuers[i]

\* A name that matches nothing was compared with all 8 entries, the root's
\* included.
C17_Witness ==
  /\ call.op = "cert_get_issuer_from_name"
  /\ call.s_issuer = <<"C","A","0","0","0","0","0","0","0","1">>
  /\ call.ret_issuer = RVL_CERT_ISSUER_UNKNOWN
  /\ call.compared = ValidIssuers

(***************************************************************************)
(* Walking a trust chain.                                                  *)
(***************************************************************************)
\* C19: a walk that starts at a valid index and repeatedly moves to
\* cert_get_issuer_from_name(issuer field of cert_get(current)) until it is at
\* the root never yields Unknown, never fails a call, never visits an index
\* twice, is at the root after at most 2 steps, and stays inside one
\* hierarchy: retail records and the root, or debug records and the root.
C19_WalkEndsAtRoot ==
  walk # << >> =>
    LET visited == { walk[k] : k \in 1..Len(walk) }
    IN  /\ ~aborted
        /\ RVL_CERT_ISSUER_UNKNOWN \notin visited
        /\ WalkFetched => call.returned /\ call.ret_cert # NULL
        /\ Cardinality(visited) = Len(walk)
        /\ Len(walk) - 1 <= 2
        /\ Len(walk) - 1 = 2 => walk[Len(walk)] = RVL_CERT_ISSUER_ROOT
        /\ \/ visited \subseteq RetailIssuers \cup { RVL_CERT_ISSUER_ROOT }
           \/ visited \subseteq DebugIssuers \cup { RVL_CERT_ISSUER_ROOT }
        /\ \A k \in 1..(Len(walk) - 1) : walk[k] # RVL_CERT_ISSUER_ROOT

\* The walk from the debug development certificate has reached the root in
\* two steps, through the debug CA.
C19_Witness ==
  walk = << RVL_CERT_ISSUER_DEBUG_DEV, RVL_CERT_ISSUER_DEBUG_CA,
            RVL_CERT_ISSUER_ROOT >>

(***************************************************************************)
(* Concurrent readers.                                                     *)
(***************************************************************************)
\* What thread t's call gives when it is the only call executing.
Alone(t) ==
  LET c == thr[t]
  IN  CASE c.op = "cert_get_issuer_from_name" ->
             LET r == cert_get_issuer_from_name(c.s_issuer, c.errno_in)
             IN  [aborted |-> FALSE, errno |-> r.errno, ret_issuer |-> r.ret,
                  ret_cert |-> NULL, ret_size |-> 0]
        [] c.op = "cert_get_from_name" ->
             LET r == cert_get_from_name(c.s_issuer, c.errno_in, ndebug)
             IN  [aborted |-> r.aborted, errno |-> r.errno,
                  ret_issuer |-> RVL_CERT_ISSUER_UNKNOWN,
                  ret_cert |-> r.ret, ret_size |-> 0]
        [] c.op = "cert_get" ->
             LET r == cert_get(c.issuer, c.errno_in, ndebug)
             IN  [aborted |-> r.aborted, errno |-> r.errno,
                  ret_issuer |-> RVL_CERT_ISSUER_UNKNOWN,
                  ret_cert |-> r.ret, ret_size |-> 0]
        [] c.op = "cert_get_size" ->
             LET r == cert_get_size(c.issuer, c.errno_in, ndebug)
             IN  [aborted |-> r.aborted, errno |-> r.errno,
                  ret_issuer |-> RVL_CERT_ISSUER_UNKNOWN,
                  ret_cert |-> NULL, ret_size |-> r.ret]

\* Thread t's call has returned what it gives when executed alone.
ReturnedAsAlone(t) ==
  LET c == thr[t]
      a == Alone(t)
  IN  /\ ~a.aborted
      /\ c.errno = a.errno
      /\ c.op = "cert_get_issuer_from_name" => c.ret_issuer = a.ret_issuer
      /\ c.op \in {"cert_get", "cert_get_from_name"} => c.ret_cert = a.ret_cert
      /\ c.op = "cert_get_size" => c.ret_size = a.ret_size

\* C16: under every interleaving of the readers' steps, each call returns
\* what it returns when executed alone (index, record, size, failure kind): a
\* call that has returned has the result of the call alone, and a call that
\* returns when executed alone is not cut off before it returns.
C16_EachCallAsIfAlone ==
  \A t \in Threads :
    /\ thr[t].pc = "done" => ReturnedAsAlone(t)
    /\ thr[t].pc \notin {"idle", "done"} /\ ~Alone(t).aborted => ~aborted

====
